---- MODULE Spec2Model ----
(***************************************************************************)
(* State-machine model of stable_baselines3/dqn/policies.py: the Q_Net     *)
(* value network (forward, epsilon-greedy predict) and the DQNPolicy that  *)
(* owns the online network q_net, the target network q_net_target and the  *)
(* optimizer.                                                              *)
(*                                                                         *)
(* Modelled configuration: an observation space of one feature and         *)
(* net_arch = [] (create_mlp then yields a single affine layer), so a      *)
(* network's state_dict is one weight and one bias per action and the      *)
(* Q-value of action a for feature x is weight[a] * x + bias[a].           *)
(* Reals are scaled to integers: epsilon and np.random.rand() are          *)
(* numerators over EpsDen.                                                 *)
(***************************************************************************)
EXTENDS Integers, Sequences, FiniteSets

VARIABLES phase, error, action_space, epsilon, q_net, q_net_target,
          optimizer, n_updates, synced, lastOp, call, result

vars == <<phase, error, action_space, epsilon, q_net, q_net_target,
          optimizer, n_updates, synced, lastOp, call, result>>

\* ---------------------------------------------------------------- bounds
MaxActions == 3      \* largest action_space.n constructed
MaxBatch   == 2      \* largest observation batch
EpsDen     == 1      \* epsilon and rand() are k / EpsDen
MaxSteps   == 1      \* optimizer steps taken in a run

\* value domains the inputs are drawn from
InitWeights == {0, 1}       \* a fresh layer has all weights w, w in InitWeights
FeatureValues == {1}        \* the value of the one feature of an observation
BinarySizes == {2}          \* sizes n of the MultiBinary(n) spaces constructed
Gradients == {1}            \* the gradient an optimizer step applies

\* ---------------------------------------------------------------- values
ActionSpaces ==
    [kind : {"Discrete"}, n : 1..MaxActions]
      \cup [kind : {"MultiBinary"}, n : BinarySizes]
      \cup [kind : {"Box"}, n : {0}]

EpsValues == 0..EpsDen            \* epsilon in [0, 1]
RandValues == 0..(EpsDen - 1)     \* np.random.rand() in [0, 1)

\* the freshly initialised layer of one network (create_mlp)
InitParams(n) ==
    {[weight |-> [a \in 1..n |-> w], bias |-> [a \in 1..n |-> 0]] : w \in InitWeights}

\* observations: a batch (ndim = 2, one row per element) or a single
\* unbatched observation (ndim = 1)
Observations ==
    [ndim : {2}, rows : UNION {[1..b -> FeatureValues] : b \in 1..MaxBatch}]
      \cup [ndim : {1}, rows : [1..1 -> FeatureValues]]

NoNet == [exists |-> FALSE, epsilon |-> 0, weight |-> <<>>, bias |-> <<>>]
NoOptimizer == [exists |-> FALSE, params |-> {}, lr |-> 0]
\* the arguments and the return value of the operation that ran last
NoObs == [ndim |-> 2, rows |-> <<>>]
NoCall == [obs |-> NoObs, deterministic |-> FALSE, eps |-> 0]
Call(obs, det) == [obs |-> obs, deterministic |-> det, eps |-> 0]
Ok(v) == [err |-> "none", val |-> v]
Raise(e) == [err |-> e, val |-> <<>>]

\* ---------------------------------------------------------------- Q_Net
\* Q_Net.__init__: epsilon from the arguments, freshly initialised layers
Q_Net(net_args, init) ==
    [exists |-> TRUE, epsilon |-> net_args.epsilon,
     weight |-> init.weight, bias |-> init.bias]

state_dict(net) == [weight |-> net.weight, bias |-> net.bias]

load_state_dict_bias_only(net, sd) ==
    [net EXCEPT !.bias = sd.bias]

load_state_dict_soft(net, sd) ==
    [net EXCEPT !.weight = [a \in 1..Len(@) |-> (@[a] + sd.weight[a]) \div 2],
                !.bias = [a \in 1..Len(@) |-> (@[a] + sd.bias[a]) \div 2]]

load_state_dict(net, sd) ==
    [net EXCEPT !.weight = sd.weight, !.bias = sd.bias]

\* Q_Net.forward on one row of features
forward(net, x) == [a \in 1..Len(net.weight) |-> net.weight[a] * x + net.bias[a]]

\* th.argmax over the action dimension: index of the first maximal value
argmax_last(q) ==
    (CHOOSE i \in 1..Len(q) :
        /\ \A j \in 1..Len(q) : q[j] <= q[i]
        /\ \A j \in (i + 1)..Len(q) : q[j] < q[i]) - 1

argmax(q) ==
    (CHOOSE i \in 1..Len(q) :
        /\ \A j \in 1..Len(q) : q[j] <= q[i]
        /\ \A j \in 1..(i - 1) : q[j] < q[i]) - 1

\* action_space.sample(): a scalar index for Discrete, a vector of n bits
\* for MultiBinary
SampleSet(space) ==
    IF space.kind = "Discrete" THEN 0..(space.n - 1)
    ELSE [1..space.n -> 0..1]

Numel(space, count) ==
    IF space.kind = "Discrete" THEN count ELSE count * space.n

FirstElement(space, samples) ==
    IF space.kind = "Discrete" THEN samples[1] ELSE samples[1][1]

\* tensor.reshape(1): only a tensor of exactly one element can take shape (1,)
reshape1(space, samples) ==
    IF Numel(space, Len(samples)) = 1
    THEN Ok(<<FirstElement(space, samples)>>)
    ELSE Raise("RuntimeError")

\* number of action_space.sample() calls the exploring branch makes
SampleCount(obs) == IF obs.ndim > 1 THEN Len(obs.rows) ELSE 1

\* Q_Net.predict; rnd is the value of np.random.rand(), samples the values
\* returned by the successive action_space.sample() calls
Q_Net_predict_leq(net, space, obs, deterministic, rnd, samples) ==
    IF ~deterministic /\ rnd <= net.epsilon
    THEN reshape1(space, samples)
    ELSE IF obs.ndim > 1
         THEN Ok([i \in 1..Len(obs.rows) |-> argmax(forward(net, obs.rows[i]))])
         ELSE Raise("IndexError")

Q_Net_predict_ignores_deterministic(net, space, obs, deterministic, rnd, samples) ==
    IF rnd < net.epsilon
    THEN reshape1(space, samples)
    ELSE IF obs.ndim > 1
         THEN Ok([i \in 1..Len(obs.rows) |-> argmax(forward(net, obs.rows[i]))])
         ELSE Raise("IndexError")

Q_Net_predict(net, space, obs, deterministic, rnd, samples) ==
    IF ~deterministic /\ rnd < net.epsilon
    THEN reshape1(space, samples)
    ELSE IF obs.ndim > 1
         THEN Ok([i \in 1..Len(obs.rows) |-> argmax(forward(net, obs.rows[i]))])
         ELSE Raise("IndexError")

\* ---------------------------------------------------------------- DQNPolicy
Policy == [epsilon |-> epsilon, q_net |-> q_net, q_net_target |-> q_net_target,
           action_space |-> action_space]

make_q_net(net_args, init) == Q_Net(net_args, init)

\* nn.Module.parameters() of the policy: the parameters of every registered
\* sub-module, i.e. of q_net and of q_net_target
parameters ==
    [net : {"q_net", "q_net_target"}, key : {"weight", "bias"}]

lr_schedule(progress) == progress + 1

_predict_target(policy, obs, deterministic, rnd, samples) ==
    Q_Net_predict(policy.q_net_target, policy.action_space, obs, deterministic,
                  rnd, samples)

_predict(policy, obs, deterministic, rnd, samples) ==
    Q_Net_predict(policy.q_net, policy.action_space, obs, deterministic, rnd, samples)

q_predict(policy, obs, deterministic, rnd, samples) ==
    Q_Net_predict(policy.q_net, policy.action_space, obs, deterministic, rnd, samples)

\* BasePolicy.predict: delegates to _predict
predict(policy, obs, deterministic, rnd, samples) ==
    _predict(policy, obs, deterministic, rnd, samples)

q_forward(policy, obs, rnd, samples) ==
    predict(policy, obs, FALSE, rnd, samples)

\* ---------------------------------------------------------------- state
Init ==
    /\ phase = "unbuilt"
    /\ error = "none"
    /\ action_space = [kind |-> "Box", n |-> 0]
    /\ epsilon = 0
    /\ q_net = NoNet
    /\ q_net_target = NoNet
    /\ optimizer = NoOptimizer
    /\ n_updates = 0
    /\ synced = 0
    /\ lastOp = "none"
    /\ call = NoCall
    /\ result = Ok(<<>>)

\* DQNPolicy.__init__ followed by _build
Construct ==
    /\ phase = "unbuilt"
    /\ \E space \in ActionSpaces, eps \in EpsValues :
         /\ action_space' = space
         /\ lastOp' = "construct"
         /\ IF space.kind = "Box"
            THEN \* self.action_space.n: the space has no attribute n
                 /\ phase' = "failed"
                 /\ error' = "AttributeError"
                 /\ UNCHANGED <<epsilon, q_net, q_net_target, optimizer>>
            ELSE \E init1 \in InitParams(space.n), init2 \in InitParams(space.n) :
                   LET net_args == [action_dim |-> space.n, epsilon |-> eps]
                       online == make_q_net(net_args, init1)
                       target == make_q_net(net_args, init2)
                   IN /\ phase' = "built"
                      /\ error' = "none"
                      /\ epsilon' = eps
                      /\ q_net' = online
                      /\ q_net_target' = load_state_dict(target, state_dict(online))
                      /\ optimizer' = [exists |-> TRUE, params |-> parameters,
                                       lr |-> lr_schedule(1)]
    /\ call' = NoCall
    /\ result' = Ok(<<>>)
    /\ UNCHANGED <<n_updates, synced>>

update_epsilon_online_only(policy, eps) ==
    [policy EXCEPT !.q_net.epsilon = eps, !.epsilon = eps]

update_epsilon(policy, eps) ==
    [policy EXCEPT !.q_net_target.epsilon = eps, !.q_net.epsilon = eps,
                   !.epsilon = eps]

UpdateEpsilon ==
    /\ phase = "built"
    /\ \E eps \in EpsValues :
         LET p == update_epsilon(Policy, eps)
         IN /\ epsilon' = p.epsilon
            /\ q_net' = p.q_net
            /\ q_net_target' = p.q_net_target
            /\ call' = [NoCall EXCEPT !.eps = eps]
    /\ lastOp' = "update_epsilon"
    /\ result' = Ok(<<>>)
    /\ synced' = 0
    /\ UNCHANGED <<phase, error, action_space, optimizer, n_updates>>

\* the values action_space.sample() returns in one call of predict: sample()
\* is called only in the exploring branch
Samples(obs, det, rnd) ==
    IF ~det /\ rnd < q_net.epsilon
    THEN [1..SampleCount(obs) -> SampleSet(action_space)]
    ELSE {<<>>}

PredictFrame ==
    /\ synced' = 0
    /\ UNCHANGED <<phase, error, action_space, epsilon, q_net, q_net_target,
                   optimizer, n_updates>>

Call_predict ==
    /\ phase = "built"
    /\ \E obs \in Observations, det \in BOOLEAN, rnd \in RandValues :
         \E samples \in Samples(obs, det, rnd) :
           /\ call' = Call(obs, det)
           /\ result' = _predict(Policy, obs, det, rnd, samples)
    /\ lastOp' = "_predict"
    /\ PredictFrame

Call_q_predict ==
    /\ phase = "built"
    /\ \E obs \in Observations, det \in BOOLEAN, rnd \in RandValues :
         \E samples \in Samples(obs, det, rnd) :
           /\ call' = Call(obs, det)
           /\ result' = q_predict(Policy, obs, det, rnd, samples)
    /\ lastOp' = "q_predict"
    /\ PredictFrame

Call_q_forward ==
    /\ phase = "built"
    /\ \E obs \in Observations, rnd \in RandValues :
         \E samples \in Samples(obs, FALSE, rnd) :
           /\ call' = Call(obs, FALSE)
           /\ result' = q_forward(Policy, obs, rnd, samples)
    /\ lastOp' = "q_forward"
    /\ PredictFrame

\* hard update of the target network from the online network
synchronize_target(policy) ==
    [policy EXCEPT !.q_net_target =
        load_state_dict(policy.q_net_target, state_dict(policy.q_net))]

SynchronizeTarget ==
    /\ phase = "built"
    /\ q_net_target' = synchronize_target(Policy).q_net_target
    /\ synced' = IF synced < 2 THEN synced + 1 ELSE 2
    /\ lastOp' = "synchronize_target"
    /\ call' = NoCall
    /\ result' = Ok(<<>>)
    /\ UNCHANGED <<phase, error, action_space, epsilon, q_net, optimizer,
                   n_updates>>

\* optimizer.step(): every parameter the optimizer holds that received a
\* gradient moves against it.  The gradient of a loss on Q(x)[a] of one
\* network is g * x on weight[a] and g on bias[a] of that network.
step(net, name, opt, a, g, x) ==
    LET w == IF [net |-> name, key |-> "weight"] \in opt.params
             THEN [net.weight EXCEPT ![a] = @ - g * x] ELSE net.weight
        b == IF [net |-> name, key |-> "bias"] \in opt.params
             THEN [net.bias EXCEPT ![a] = @ - g] ELSE net.bias
    IN [net EXCEPT !.weight = w, !.bias = b]

OptimizerStep ==
    /\ phase = "built"
    /\ n_updates < MaxSteps
    /\ \E name \in {"q_net", "q_net_target"}, a \in 1..action_space.n,
          g \in Gradients, x \in FeatureValues :
         /\ q_net' = IF name = "q_net"
                     THEN step(q_net, name, optimizer, a, g, x) ELSE q_net
         /\ q_net_target' = IF name = "q_net_target"
                            THEN step(q_net_target, name, optimizer, a, g, x)
                            ELSE q_net_target
    /\ n_updates' = n_updates + 1
    /\ synced' = 0
    /\ lastOp' = "step"
    /\ call' = NoCall
    /\ result' = Ok(<<>>)
    /\ UNCHANGED <<phase, error, action_space, epsilon, optimizer>>

Next ==
    \/ Construct
    \/ UpdateEpsilon
    \/ Call_predict
    \/ Call_q_predict
    \/ Call_q_forward
    \/ SynchronizeTarget
    \/ OptimizerStep

Spec == Init /\ [][Next]_vars

\* ---------------------------------------------------------------- properties
PredictOps == {"_predict", "q_predict", "q_forward"}

\* one sample() result per element, used where the drawn values do not matter
SomeSamples(space, obs) ==
    [i \in 1..SampleCount(obs) |-> CHOOSE s \in SampleSet(space) : TRUE]

\* deterministic action selection of a network for an observation
DetAction(net, space, obs, rnd) ==
    Q_Net_predict(net, space, obs, TRUE, rnd, SomeSamples(space, obs))

\* every result a network's predict can return for a call
Outcomes(net, space, obs, det) ==
    {Q_Net_predict(net, space, obs, det, rnd, samples) :
        rnd \in RandValues, samples \in [1..SampleCount(obs) -> SampleSet(space)]}

\* C1: immediately after a successful construction every parameter of the
\* target network equals the corresponding parameter of the online network.
C1_TargetEqualsOnlineAfterConstruction ==
    (lastOp = "construct" /\ phase = "built")
        => /\ q_net_target.weight = q_net.weight
           /\ q_net_target.bias = q_net.bias

W_C1 ==
    /\ lastOp = "construct" /\ phase = "built"
    /\ action_space = [kind |-> "Discrete", n |-> MaxActions]
    /\ q_net.exists /\ q_net_target.exists
    /\ q_net.weight[1] = 1 /\ q_net_target.weight[1] = 1

\* C2: the optimizer created at construction holds parameters of the online
\* network only, no parameter of the target network.
C2_OptimizerHoldsOnlineOnly ==
    phase = "built" => \A p \in optimizer.params : p.net = "q_net"

\* C3: online.epsilon, target.epsilon and policy.epsilon are equal in every
\* state after construction, and after update_epsilon(x) all three equal x.
C3_EpsilonShared ==
    /\ phase = "built" =>
         (q_net.epsilon = epsilon /\ q_net_target.epsilon = epsilon)
    /\ lastOp = "update_epsilon" =>
         (q_net.epsilon = call.eps /\ q_net_target.epsilon = call.eps
            /\ epsilon = call.eps)

W_C3 ==
    /\ lastOp = "update_epsilon" /\ call.eps = EpsDen
    /\ epsilon = EpsDen /\ q_net.epsilon = EpsDen /\ q_net_target.epsilon = EpsDen
    /\ n_updates = MaxSteps

\* C4: the action every prediction entry point (_predict, q_predict,
\* q_forward) returns is one the online network selects for the observation;
\* it does not follow the target network's parameters.
C4_PredictionUsesOnlineOnly ==
    lastOp \in PredictOps =>
        result \in Outcomes(q_net, action_space, call.obs, call.deterministic)

W_C4 ==
    /\ lastOp \in PredictOps /\ call.deterministic /\ call.obs.ndim = 2
    /\ result.err = "none"
    /\ result = DetAction(q_net, action_space, call.obs, 0)
    /\ result # DetAction(q_net_target, action_space, call.obs, 0)

\* C5: with deterministic = false, a call on a batch of B >= 1 observations
\* returns exactly B action indices, each in [0, action_dim), whether the
\* call explores or exploits.
C5_OneActionPerBatchElement ==
    (/\ lastOp \in PredictOps /\ ~call.deterministic
     /\ call.obs.ndim = 2 /\ action_space.kind = "Discrete")
        => /\ result.err = "none"
           /\ Len(result.val) = Len(call.obs.rows)
           /\ \A i \in 1..Len(result.val) :
                result.val[i] \in 0..(action_space.n - 1)

\* C6: when epsilon is 0, action selection with deterministic = false returns
\* what deterministic = true returns for the same observation and the same
\* online parameters.
C6_ZeroEpsilonIsGreedy ==
    (lastOp \in PredictOps /\ ~call.deterministic /\ q_net.epsilon = 0)
        => \A rnd \in RandValues :
             result = DetAction(q_net, action_space, call.obs, rnd)

W_C6 ==
    /\ lastOp \in PredictOps /\ ~call.deterministic /\ q_net.epsilon = 0
    /\ call.obs.ndim = 2 /\ Len(call.obs.rows) = MaxBatch
    /\ result.err = "none" /\ Len(result.val) = MaxBatch

C8_ArgmaxLowestIndex ==
    /\ argmax(<<1, 9, 9, 2>>) = 1
    /\ (lastOp \in PredictOps /\ call.deterministic /\ call.obs.ndim = 2)
        => /\ result.err = "none"
           /\ Len(result.val) = Len(call.obs.rows)
           /\ \A i \in 1..Len(call.obs.rows) :
                LET q == forward(q_net, call.obs.rows[i])
                    a == result.val[i] + 1
                IN /\ a \in 1..Len(q)
                   /\ \A j \in 1..Len(q) : q[j] <= q[a]
                   /\ \A j \in 1..(a - 1) : q[j] < q[a]

W_C8 ==
    /\ lastOp \in PredictOps /\ call.deterministic /\ call.obs.ndim = 2
    /\ Len(call.obs.rows) = MaxBatch /\ action_space.n >= 3
    /\ result.err = "none"
    /\ LET q == forward(q_net, call.obs.rows[1])
       IN q[1] < q[2] /\ q[2] = q[3] /\ result.val[1] = 1

\* C9: constructing a policy with an action space that is not discrete fails,
\* and no network or optimizer results from the attempt.
C9_NonDiscreteRejected ==
    (lastOp # "none" /\ action_space.kind # "Discrete")
        => /\ phase = "failed" /\ error # "none"
           /\ ~q_net.exists /\ ~q_net_target.exists /\ ~optimizer.exists

\* C10: prediction and update_epsilon leave the parameters of both networks
\* unchanged, target synchronisation leaves the online parameters unchanged,
\* and deterministic action selection is a function of the observation and
\* the online parameters alone (not of epsilon or of the random draw), so it
\* returns the same action before and after any of these operations.
DetActionOfParamsOnly ==
    phase = "built" =>
        \A obs \in Observations, rnd \in RandValues, eps \in EpsValues :
            DetAction([q_net EXCEPT !.epsilon = eps], action_space, obs, rnd)
                = DetAction(q_net, action_space, obs, 0)

C10_DeterministicSelectionStable ==
    /\ []DetActionOfParamsOnly
    /\ [][/\ lastOp' \in PredictOps \cup {"update_epsilon"} =>
              /\ q_net'.weight = q_net.weight /\ q_net'.bias = q_net.bias
              /\ q_net_target'.weight = q_net_target.weight
              /\ q_net_target'.bias = q_net_target.bias
         /\ lastOp' = "synchronize_target" =>
              /\ q_net'.weight = q_net.weight /\ q_net'.bias = q_net.bias]_vars

W_C10 ==
    /\ lastOp \in PredictOps /\ call.deterministic /\ call.obs.ndim = 2
    /\ q_net.epsilon = EpsDen /\ n_updates = MaxSteps
    /\ q_net_target.weight = q_net.weight /\ q_net_target.bias = q_net.bias
    /\ result.err = "none"
    /\ result = DetAction(q_net, action_space, call.obs, 0)

====
